---- MODULE Spec2Model ----
(***************************************************************************)
(* Tic Tac Toe (React, src/tic_tac_toe_frontend/src/App.js).               *)
(*                                                                         *)
(* The App component keeps five state fields (mode, board, isXTurn,        *)
(* winner, gameActive) and one deferred computer move (setTimeout).        *)
(* Every handler runs against the values of the render that created it     *)
(* (its closure); its state updates are batched, the component re-renders, *)
(* and the effects whose dependencies changed run, which may update state  *)
(* again.  One action of this model is one event of the event loop: the    *)
(* handler together with the renders and effects it causes, up to the      *)
(* render after which no effect has anything left to do.                   *)
(***************************************************************************)
EXTENDS Integers, Sequences, FiniteSets

VARIABLES
    mode,        \* useState(MODES.SINGLE)
    board,       \* useState(getInitialBoard())
    isXTurn,     \* useState(true)
    winner,      \* useState(null)
    gameActive,  \* useState(true)
    timers,      \* pending setTimeout callbacks, oldest first; each is the
                 \* render (closure) whose effect scheduled it
    cleanup,     \* TRUE when the board effect's last run returned a cleanup
                 \* whose timer (the newest one) is still pending
    last         \* the event handled last and the state it was handled in

sessionVars == <<mode, board, isXTurn, winner, gameActive>>
vars == <<mode, board, isXTurn, winner, gameActive, timers, cleanup, last>>

----------------------------------------------------------------------------
(* Values *)

Null == "null"
\* computerMove's null, "no move available"
NoMove == -1
SINGLE == "1P (vs Computer)"
TWO == "2P (local)"
MODES == {SINGLE, TWO}
Cells == 0..8

Min(S) == CHOOSE x \in S : \A y \in S : x <= y
Range(s) == {s[i] : i \in 1..Len(s)}

----------------------------------------------------------------------------
(* Game logic utilities *)

getInitialBoard == [i \in Cells |-> Null]

lines == << <<0, 1, 2>>, <<3, 4, 5>>, <<6, 7, 8>>,
            <<0, 3, 6>>, <<1, 4, 7>>, <<2, 5, 8>>,
            <<0, 4, 8>>, <<2, 4, 6>> >>

\* line k is three equal non-empty marks
lineDone(b, k) ==
    /\ b[lines[k][1]] # Null
    /\ b[lines[k][1]] = b[lines[k][2]]
    /\ b[lines[k][1]] = b[lines[k][3]]

\* checkWinner returning the mark of the last completed line
checkWinner_lastMatch(b) ==
    LET done == {k \in 1..Len(lines) : lineDone(b, k)}
        lastDone == CHOOSE k \in done : \A j \in done : j <= k
    IN  IF done # {} THEN b[lines[lastDone][1]]
        ELSE IF \A i \in Cells : b[i] # Null THEN "draw"
        ELSE Null

\* checkWinner calling a draw with board.some instead of board.every
checkWinner_drawOnAny(b) ==
    LET done == {k \in 1..Len(lines) : lineDone(b, k)}
    IN  IF done # {} THEN b[lines[Min(done)][1]]
        ELSE IF \E i \in Cells : b[i] # Null THEN "draw"
        ELSE Null

\* "X", "O", "draw" or Null: the mark of the first completed line
checkWinner(b) ==
    LET done == {k \in 1..Len(lines) : lineDone(b, k)}
    IN  IF done # {} THEN b[lines[Min(done)][1]]
        ELSE IF \A i \in Cells : b[i] # Null THEN "draw"
        ELSE Null

\* the empty cells' indices, ascending
getAvailableMoves(b) ==
    SelectSeq([i \in 1..9 |-> i - 1], LAMBDA i : b[i] = Null)

\* computerMove that blocks before it looks for its own win
computerMove_blockFirst(b, aiMark, humanMark) ==
    LET avail == getAvailableMoves(b)
        wins == SelectSeq(avail,
                    LAMBDA i : checkWinner([b EXCEPT ![i] = aiMark]) = aiMark)
        blocks == SelectSeq(avail,
                    LAMBDA i : checkWinner([b EXCEPT ![i] = humanMark]) = humanMark)
        corners == SelectSeq(<<0, 2, 6, 8>>, LAMBDA i : b[i] = Null)
    IN  IF Len(blocks) > 0 THEN {blocks[1]}
        ELSE IF Len(wins) > 0 THEN {wins[1]}
        ELSE IF b[4] = Null THEN {4}
        ELSE IF Len(corners) > 0 THEN Range(corners)
        ELSE IF Len(avail) = 0 THEN {NoMove}
        ELSE Range(avail)

\* computerMove that takes the centre before it blocks
computerMove_centreFirst(b, aiMark, humanMark) ==
    LET avail == getAvailableMoves(b)
        wins == SelectSeq(avail,
                    LAMBDA i : checkWinner([b EXCEPT ![i] = aiMark]) = aiMark)
        blocks == SelectSeq(avail,
                    LAMBDA i : checkWinner([b EXCEPT ![i] = humanMark]) = humanMark)
        corners == SelectSeq(<<0, 2, 6, 8>>, LAMBDA i : b[i] = Null)
    IN  IF Len(wins) > 0 THEN {wins[1]}
        ELSE IF b[4] = Null THEN {4}
        ELSE IF Len(blocks) > 0 THEN {blocks[1]}
        ELSE IF Len(corners) > 0 THEN Range(corners)
        ELSE IF Len(avail) = 0 THEN {NoMove}
        ELSE Range(avail)

\* computerMove whose corner list lacks cell 8
computerMove_threeCorners(b, aiMark, humanMark) ==
    LET avail == getAvailableMoves(b)
        wins == SelectSeq(avail,
                    LAMBDA i : checkWinner([b EXCEPT ![i] = aiMark]) = aiMark)
        blocks == SelectSeq(avail,
                    LAMBDA i : checkWinner([b EXCEPT ![i] = humanMark]) = humanMark)
        corners == SelectSeq(<<0, 2, 6>>, LAMBDA i : b[i] = Null)
    IN  IF Len(wins) > 0 THEN {wins[1]}
        ELSE IF Len(blocks) > 0 THEN {blocks[1]}
        ELSE IF b[4] = Null THEN {4}
        ELSE IF Len(corners) > 0 THEN Range(corners)
        ELSE IF Len(avail) = 0 THEN {NoMove}
        ELSE Range(avail)

\* computerMove without the corner tier: any free cell once the centre is taken
computerMove_noCornerTier(b, aiMark, humanMark) ==
    LET avail == getAvailableMoves(b)
        wins == SelectSeq(avail,
                    LAMBDA i : checkWinner([b EXCEPT ![i] = aiMark]) = aiMark)
        blocks == SelectSeq(avail,
                    LAMBDA i : checkWinner([b EXCEPT ![i] = humanMark]) = humanMark)
    IN  IF Len(wins) > 0 THEN {wins[1]}
        ELSE IF Len(blocks) > 0 THEN {blocks[1]}
        ELSE IF b[4] = Null THEN {4}
        ELSE IF Len(avail) = 0 THEN {NoMove}
        ELSE Range(avail)

\* the set of values computerMove may return (Math.random picks any element)
computerMove(b, aiMark, humanMark) ==
    LET avail == getAvailableMoves(b)
        wins == SelectSeq(avail,
                    LAMBDA i : checkWinner([b EXCEPT ![i] = aiMark]) = aiMark)
        blocks == SelectSeq(avail,
                    LAMBDA i : checkWinner([b EXCEPT ![i] = humanMark]) = humanMark)
        corners == SelectSeq(<<0, 2, 6, 8>>, LAMBDA i : b[i] = Null)
    IN  IF Len(wins) > 0 THEN {wins[1]}
        ELSE IF Len(blocks) > 0 THEN {blocks[1]}
        ELSE IF b[4] = Null THEN {4}
        ELSE IF Len(corners) > 0 THEN Range(corners)
        ELSE IF Len(avail) = 0 THEN {NoMove}
        ELSE Range(avail)

----------------------------------------------------------------------------
(* The component's state as one value.  A render r is the record of the    *)
(* five fields the render saw; a handler created by r reads r.  A pending  *)
(* state q is the record the batched updates of one event build up.        *)

render == [mode |-> mode, board |-> board, isXTurn |-> isXTurn,
           winner |-> winner, gameActive |-> gameActive]

\* handleRestart without setIsXTurn(true)
handleRestart_keepsTurn(q) ==
    [q EXCEPT !.board = getInitialBoard, !.winner = Null, !.gameActive = TRUE]

\* handleRestart: four plain (non-functional) updates
handleRestart(q) ==
    [q EXCEPT !.board = getInitialBoard, !.isXTurn = TRUE,
              !.winner = Null, !.gameActive = TRUE]

\* makeMove's guard without the gameActive test
moveAccepted_noActiveCheck(r, idx) == r.board[idx] = Null

\* makeMove's guard, read from the render r that created it
moveAccepted(r, idx) == r.gameActive /\ r.board[idx] = Null

\* makeMove that always writes "X"
makeMove_alwaysX(r, q, idx) ==
    IF ~moveAccepted(r, idx) THEN q
    ELSE [q EXCEPT !.board = [r.board EXCEPT ![idx] = "X"],
                   !.isXTurn = ~q.isXTurn]

\* makeMove that builds the next board from a fresh one, not from a copy
makeMove_freshBoard(r, q, idx) ==
    IF ~moveAccepted(r, idx) THEN q
    ELSE [q EXCEPT !.board = [getInitialBoard EXCEPT ![idx] = IF r.isXTurn THEN "X" ELSE "O"],
                   !.isXTurn = ~q.isXTurn]

\* makeMove(idx) of render r: the next board is built from r.board and
\* r.isXTurn; the turn is flipped by a functional update of the pending state
makeMove(r, q, idx) ==
    IF ~moveAccepted(r, idx) THEN q
    ELSE [q EXCEPT !.board = [r.board EXCEPT ![idx] = IF r.isXTurn THEN "X" ELSE "O"],
                   !.isXTurn = ~q.isXTurn]

\* handleCellClick's guard without the isXTurn test of single-player mode
clickPasses_noTurnCheck(r, idx) == r.board[idx] = Null

\* handleCellClick's own guard
clickPasses(r, idx) ==
    IF r.mode = SINGLE THEN r.isXTurn /\ r.board[idx] = Null
    ELSE r.board[idx] = Null

handleCellClick(r, q, idx) ==
    IF clickPasses(r, idx) THEN makeMove(r, q, idx) ELSE q

\* the canSwitchMode prop without the test for an empty board
canSwitchMode_noEmptyTest(r) == r.winner # Null

\* the canSwitchMode prop handed to ControlPanel
canSwitchMode(r) == (\A i \in Cells : r.board[i] = Null) \/ r.winner # Null

----------------------------------------------------------------------------
(* Effects.  tm is the timer state [q |-> pending timers, c |-> cleanup].  *)

\* a cleanup that clears nothing
clearTimeout_noop(tm) == [q |-> tm.q, c |-> FALSE]

\* clearTimeout(aiTimeout), the cleanup the board effect returned
clearTimeout(tm) ==
    IF tm.c THEN [q |-> SubSeq(tm.q, 1, Len(tm.q) - 1), c |-> FALSE] ELSE tm

\* useEffect(..., [mode]): reset on mode change
modeEffect(r, q) == handleRestart(q)

\* the scheduling condition without the !isXTurn test
aiDue_anyTurn(r) == r.mode = SINGLE /\ checkWinner(r.board) = Null

\* the scheduling condition without the res === null test
aiDue_noResultCheck(r) == r.mode = SINGLE /\ ~r.isXTurn

\* the condition under which the board effect schedules the computer's move
aiDue(r) == r.mode = SINGLE /\ ~r.isXTurn /\ checkWinner(r.board) = Null

\* the board effect without setGameActive
boardEffect_noActive(r, q) == [q EXCEPT !.winner = checkWinner(r.board)]

\* useEffect(..., [board, isXTurn, mode]): the state updates
boardEffect(r, q) ==
    LET res == checkWinner(r.board)
    IN  [q EXCEPT !.winner = res, !.gameActive = (res = Null)]

\* the board effect setting the timer but returning no cleanup
setTimer_noCleanup(r, tm) ==
    IF aiDue(r) THEN [q |-> Append(tm.q, r), c |-> FALSE]
    ELSE [q |-> tm.q, c |-> FALSE]

\* useEffect(..., [board, isXTurn, mode]): setTimeout and the cleanup returned
setTimer(r, tm) ==
    IF aiDue(r) THEN [q |-> Append(tm.q, r), c |-> TRUE]
    ELSE [q |-> tm.q, c |-> FALSE]

\* the dependency lists: has [mode], has [board, isXTurn, mode] changed?
\* boardSet says setBoard was called (a new array never equals the old one,
\* whatever it holds).
modeDeps(prev, next) == next.mode # prev.mode
boardDeps(prev, next, boardSet) ==
    boardSet \/ next.isXTurn # prev.isXTurn \/ next.mode # prev.mode

\* Render `next` after render `prev`: the cleanup, then the effects whose
\* dependencies changed, in the order the component declares them, then the
\* render their updates cause, until no effect has anything left to do.
RECURSIVE commit(_, _, _, _)
commit(prev, next, boardSet, tm) ==
    LET modeDep == modeDeps(prev, next)
        boardDep == boardDeps(prev, next, boardSet)
        tm1 == IF boardDep THEN clearTimeout(tm) ELSE tm
        q1 == IF modeDep THEN modeEffect(next, next) ELSE next
        q2 == IF boardDep THEN boardEffect(next, q1) ELSE q1
        tm2 == IF boardDep THEN setTimer(next, tm1) ELSE tm1
    IN  IF ~modeDep /\ ~boardDep THEN [r |-> next, tm |-> tm]
        ELSE commit(next, q2, modeDep, tm2)

timerState == [q |-> timers, c |-> cleanup]

\* the variables after an event that left pending state q
settle(q, boardSet, tm, ev) ==
    LET out == commit(render, q, boardSet, tm)
    IN  /\ mode' = out.r.mode
        /\ board' = out.r.board
        /\ isXTurn' = out.r.isXTurn
        /\ winner' = out.r.winner
        /\ gameActive' = out.r.gameActive
        /\ timers' = out.tm.q
        /\ cleanup' = out.tm.c
        /\ last' = [op |-> ev.op, idx |-> ev.idx, pre |-> render, preTimers |-> timers]

----------------------------------------------------------------------------
(* Events *)

\* Board's onClick(idx)
CellClick(idx) ==
    /\ idx \in Cells
    /\ settle(handleCellClick(render, render, idx),
              clickPasses(render, idx) /\ moveAccepted(render, idx),
              timerState, [op |-> "click", idx |-> idx])

\* the Restart button
Restart ==
    /\ TRUE
    /\ settle(handleRestart(render), TRUE, timerState,
              [op |-> "restart", idx |-> NoMove])

\* the mode selector's onChange (fires for a value other than the current one)
\* The selector is disabled unless canSwitchMode, but setMode itself has no
\* guard: the change is taken in any state, which includes the permitted ones.
SetMode(m) ==
    /\ m # mode
    /\ settle([render EXCEPT !.mode = m], FALSE, timerState,
              [op |-> "mode", idx |-> NoMove])

\* the oldest pending timer fires: the callback of the render that set it
AiTimeout ==
    /\ timers # <<>>
    /\ LET r == Head(timers)
           tm == [q |-> Tail(timers), c |-> cleanup /\ Len(timers) > 1]
       IN  \E idx \in computerMove(r.board, "O", "X") :
             IF idx # NoMove /\ r.board[idx] = Null
             THEN settle(makeMove(r, render, idx), moveAccepted(r, idx), tm,
                         [op |-> "timer", idx |-> idx])
             ELSE settle(render, FALSE, tm, [op |-> "timer", idx |-> idx])

Init ==
    /\ mode = SINGLE
    /\ board = getInitialBoard
    /\ isXTurn = TRUE
    /\ winner = Null
    /\ gameActive = TRUE
    /\ timers = <<>>
    /\ cleanup = FALSE
    /\ last = [op |-> "mount", idx |-> NoMove, pre |-> render, preTimers |-> <<>>]

Next ==
    \/ \E idx \in Cells : CellClick(idx)
    \/ Restart
    \/ \E m \in MODES : SetMode(m)
    \/ AiTimeout

Spec == Init /\ [][Next]_vars

----------------------------------------------------------------------------
(* The game logic utilities on their own: checkWinner and computerMove are *)
(* exported functions of a board; here they are called once on any board   *)
(* of nine cells, each empty, X or O.  `last` holds the call and its       *)
(* result.                                                                 *)

Marks == {"X", "O"}
Boards == [Cells -> {Null} \cup Marks]
otherMark(m) == IF m = "X" THEN "O" ELSE "X"

InitEngine ==
    /\ board \in Boards
    /\ mode = SINGLE
    /\ isXTurn = TRUE
    /\ winner = Null
    /\ gameActive = TRUE
    /\ timers = <<>>
    /\ cleanup = FALSE
    /\ last = [op |-> "input"]

\* checkWinner(board)
CallCheckWinner ==
    /\ last.op = "input"
    /\ last' = [op |-> "checkWinner", res |-> checkWinner(board)]
    /\ UNCHANGED <<sessionVars, timers, cleanup>>

\* computerMove(board, aiMark, humanMark), the computer playing either mark
CallComputerMove ==
    /\ last.op = "input"
    /\ \E ai \in Marks :
         \E idx \in computerMove(board, ai, otherMark(ai)) :
           last' = [op |-> "computerMove", aiMark |-> ai, res |-> idx]
    /\ UNCHANGED <<sessionVars, timers, cleanup>>

NextEngine ==
    \/ CallCheckWinner
    \/ CallComputerMove

SpecEngine == InitEngine /\ [][NextEngine]_vars

----------------------------------------------------------------------------
(* Properties.  `last` holds the event handled last (op, idx), the render  *)
(* it was handled in (pre) and the timers pending then (preTimers).        *)

pre == last.pre
empties(b) == {i \in Cells : b[i] = Null}
changed(b1, b2) == {i \in Cells : b1[i] # b2[i]}
\* a move request the session accepts: active, cell empty, and X's turn in
\* single-player mode
acceptable(r, idx) ==
    /\ r.gameActive
    /\ r.board[idx] = Null
    /\ r.mode = SINGLE => r.isXTurn
initialSession(m) ==
    [mode |-> m, board |-> getInitialBoard, isXTurn |-> TRUE,
     winner |-> Null, gameActive |-> TRUE]

\* C1: a move request is a no-op when the session is inactive, the cell is
\* occupied, or it is O's turn in single-player mode: the five fields and the
\* pending computer move are what they were.
C1_RejectedClickNoOp ==
    (/\ last.op = "click"
     /\ \/ ~pre.gameActive
        \/ pre.board[last.idx] # Null
        \/ pre.mode = SINGLE /\ ~pre.isXTurn)
    => render = pre /\ timers = last.preTimers

\* a click on an empty cell while the computer's move is pending
C1_Witness ==
    /\ last.op = "click"
    /\ pre.mode = SINGLE /\ ~pre.isXTurn
    /\ pre.gameActive /\ pre.board[last.idx] = Null
    /\ last.preTimers # <<>>

\* C2: a restart or mode change with a computer move pending cancels it: no
\* timer is left, the board is empty and it is X's turn; and whenever the
\* board is empty nothing is pending, so only a human move ends that.
C2_ResetCancelsTimer ==
    /\ (last.op \in {"restart", "mode"} /\ last.preTimers # <<>>)
         => timers = <<>> /\ board = getInitialBoard /\ isXTurn
    /\ board = getInitialBoard => timers = <<>> /\ isXTurn

\* a restart while the computer's move was pending
C2_Witness ==
    /\ last.op = "restart"
    /\ last.preTimers # <<>>
    /\ empties(pre.board) # Cells

\* C3: a firing timer acts on the current session only: its render is the
\* current one (single-player, O's turn, in progress, same board), it puts O
\* on a cell that is empty in the current board, and otherwise changes nothing.
C3_TimerAgainstCurrent ==
    /\ \A k \in 1..Len(timers) :
         /\ timers[k].board = board /\ timers[k].mode = mode
         /\ timers[k].isXTurn = isXTurn /\ timers[k].gameActive = gameActive
    /\ last.op = "timer" =>
         LET fits == /\ pre.mode = SINGLE /\ ~pre.isXTurn
                     /\ pre.gameActive /\ pre.winner = Null
                     /\ Head(last.preTimers).board = pre.board
                     /\ last.idx # NoMove /\ pre.board[last.idx] = Null
         IN  IF fits THEN board = [pre.board EXCEPT ![last.idx] = "O"]
             ELSE render = pre

\* the computer's move has been applied
C3_Witness ==
    /\ last.op = "timer"
    /\ board # pre.board
    /\ board[last.idx] = "O"

\* C4: at most one computer move is pending, and none in two-player mode, on
\* X's turn, or when the game is over.
C4_OnePendingTimer ==
    /\ Len(timers) <= 1
    /\ (mode = TWO \/ isXTurn \/ winner # Null) => timers = <<>>

\* one move pending, after a restart and several moves
C4_Witness ==
    /\ Len(timers) = 1
    /\ last.op = "click"
    /\ Cardinality(empties(board)) <= 6

\* C5: an accepted move (a click, or the computer's) marks exactly cell idx
\* with the mark whose turn it was, flips the turn, keeps the mode, stores
\* checkWinner of the new board as the result, and leaves the session active
\* exactly when that result is in-progress.
C5_AcceptedMove ==
    (\/ last.op = "click" /\ acceptable(pre, last.idx)
     \/ last.op = "timer" /\ last.idx # NoMove)
    => /\ board = [pre.board EXCEPT ![last.idx] = IF pre.isXTurn THEN "X" ELSE "O"]
       /\ pre.board[last.idx] = Null
       /\ isXTurn = ~pre.isXTurn
       /\ mode = pre.mode
       /\ winner = checkWinner(board)
       /\ gameActive = (winner \notin {"X", "O", "draw"})

\* O completes a line in two-player mode
C5_Witness ==
    /\ last.op = "click"
    /\ acceptable(pre, last.idx)
    /\ pre.mode = TWO /\ ~pre.isXTurn
    /\ winner = "O" /\ ~gameActive

\* C6: in single-player mode an accepted human move that leaves the game in
\* progress leaves exactly one computer move pending, on the new board, with
\* O to move; one that ends the game leaves none.  When the timer fires,
\* exactly one empty cell gets O, and it is X's turn or the game is over.
C6_ComputerReplies ==
    /\ (last.op = "click" /\ pre.mode = SINGLE /\ acceptable(pre, last.idx))
         => IF checkWinner(board) = Null
            THEN Len(timers) = 1 /\ timers[1].board = board /\ ~isXTurn
            ELSE timers = <<>>
    /\ last.op = "timer"
         => /\ \E i \in empties(pre.board) : board = [pre.board EXCEPT ![i] = "O"]
            /\ isXTurn \/ winner # Null

\* X opened at the centre and the computer has answered
C6_Witness ==
    /\ last.op = "timer"
    /\ pre.board = [getInitialBoard EXCEPT ![4] = "X"]
    /\ Cardinality(empties(board)) = 7
    /\ isXTurn

\* C7: a restart yields the initial session under the same mode, a mode
\* change yields it under the new mode, whatever the state before.
C7_ResetYieldsInitial ==
    /\ last.op = "restart" => render = initialSession(pre.mode)
    /\ last.op = "mode" => render = initialSession(mode) /\ mode # pre.mode

\* a mode change after the game ended
C7_Witness ==
    /\ last.op = "mode"
    /\ pre.winner # Null

\* C8: once the game is over, no move request and no timer changes the board,
\* the result or the turn.
C8_TerminalAbsorbing ==
    (last.op \in {"click", "timer"} /\ pre.winner # Null)
    => board = pre.board /\ winner = pre.winner /\ isXTurn = pre.isXTurn

\* a click on an empty cell after X has won, in two-player mode
C8_Witness ==
    /\ last.op = "click"
    /\ pre.winner = "X" /\ pre.mode = TWO
    /\ pre.board[last.idx] = Null

\* C9: a click or a timer keeps every mark on the board and marks at most one
\* more cell.
C9_Monotonic ==
    last.op \in {"click", "timer"}
    => /\ \A i \in Cells : pre.board[i] # Null => board[i] = pre.board[i]
       /\ Cardinality(changed(pre.board, board)) <= 1

\* a fifth mark placed next to four that stay
C9_Witness ==
    /\ last.op = "click"
    /\ Cardinality(empties(pre.board)) = 5
    /\ Cardinality(changed(pre.board, board)) = 1

\* C10: the stored result and active flag are those of the board, in the
\* current render and in the render of every pending timer.
C10_ResultFromBoard ==
    /\ winner = checkWinner(board)
    /\ gameActive = (checkWinner(board) = Null)
    /\ \A k \in 1..Len(timers) :
         /\ timers[k].winner = checkWinner(timers[k].board)
         /\ timers[k].gameActive = (checkWinner(timers[k].board) = Null)

\* the computer has just won
C10_Witness ==
    /\ last.op = "timer"
    /\ winner = "O" /\ ~gameActive
    /\ mode = SINGLE

marks(b, m) == {i \in Cells : b[i] = m}
doneLines(b) == {k \in 1..Len(lines) : lineDone(b, k)}
\* placing m on the empty cell i completes a triple of m
completes(b, i, m) ==
    /\ b[i] = Null
    /\ \E k \in 1..Len(lines) :
         /\ i \in Range(lines[k])
         /\ \A j \in Range(lines[k]) \ {i} : b[j] = m

\* C11: the mode switch is permitted exactly when the board is empty or the
\* board's result is a win or a draw; never with a computer move pending.
C11_CanSwitchMode ==
    /\ canSwitchMode(render)
         <=> (empties(board) = Cells \/ checkWinner(board) \in {"X", "O", "draw"})
    /\ (checkWinner(board) = Null /\ empties(board) # Cells) => ~canSwitchMode(render)
    /\ timers # <<>> => ~canSwitchMode(render)

\* the switch is refused while the computer's move is pending
C11_Witness ==
    /\ timers # <<>>
    /\ ~canSwitchMode(render)
    /\ last.op = "click"

\* C16: the board handed to computerMove by a timer, pending or fired, has an
\* empty cell and no completed triple, and the fired timer got an index.
C16_ComputerMoveNeverNull ==
    /\ \A k \in 1..Len(timers) :
         empties(timers[k].board) # {} /\ doneLines(timers[k].board) = {}
    /\ last.op = "timer" =>
         /\ empties(Head(last.preTimers).board) # {}
         /\ doneLines(Head(last.preTimers).board) = {}
         /\ last.idx # NoMove
         /\ NoMove \notin computerMove(Head(last.preTimers).board, "O", "X")

\* the computer moved with two cells left
C16_Witness ==
    /\ last.op = "timer"
    /\ Cardinality(empties(Head(last.preTimers).board)) = 2
    /\ last.idx \in Cells

\* C17: the computer can be beaten.  After X at 0, O at 4, X at 8 the reply
\* is a corner (2 or 6); X blocks at the opposite one and holds two threats,
\* so after the computer's next move X still has a winning cell.
C17_CornerReplyLeavesFork ==
    LET opening == [getInitialBoard EXCEPT ![0] = "X", ![4] = "O", ![8] = "X"]
        forks == {[opening EXCEPT ![2] = "O", ![6] = "X"],
                  [opening EXCEPT ![6] = "O", ![2] = "X"]}
    IN  /\ (last.op = "timer" /\ pre.board = opening) => last.idx \in {2, 6}
        /\ (last.op = "timer" /\ pre.board \in forks)
             => winner = Null /\ \E i \in Cells : completes(board, i, "X")

\* X has won against the computer
C17_Witness ==
    /\ mode = SINGLE
    /\ winner = "X"
    /\ last.op = "click" /\ board[last.idx] = "X"
    /\ Cardinality(marks(board, "O")) = 3

\* C18 as stated: no reachable board has more than one completed triple.
C18_AtMostOneTriple == Cardinality(doneLines(board)) <= 1

\* C18, amended: the completed triples of a reachable board all carry the
\* same mark, there are at most two, and two share the cell marked last.
C18_TriplesOfOneMark ==
    /\ \A k1, k2 \in doneLines(board) : board[lines[k1][1]] = board[lines[k2][1]]
    /\ Cardinality(doneLines(board)) <= 2
    /\ (last.op \in {"click", "timer"} /\ board # pre.board
          /\ Cardinality(doneLines(board)) = 2)
         => \A k \in doneLines(board) : last.idx \in Range(lines[k])

\* one move completed two triples
C18_Witness ==
    /\ Cardinality(doneLines(board)) = 2
    /\ last.op = "click"
    /\ board # pre.board

\* C20: X has as many marks as O or one more, and it is X's turn exactly when
\* the counts are equal; in single-player mode clicks place X and timers O.
C20_TurnAndCounts ==
    LET nx == Cardinality(marks(board, "X"))
        no == Cardinality(marks(board, "O"))
    IN  /\ nx - no \in {0, 1}
        /\ isXTurn <=> nx = no
        /\ (mode = SINGLE /\ last.op = "click" /\ board # pre.board)
             => board[last.idx] = "X"
        /\ last.op = "timer" => board[last.idx] = "O"

\* three marks each after the computer's third move, X to play
C20_Witness ==
    /\ last.op = "timer"
    /\ Cardinality(marks(board, "X")) = 3
    /\ Cardinality(marks(board, "O")) = 3
    /\ isXTurn /\ winner = Null

----------------------------------------------------------------------------
(* Properties of the game logic utilities, over every board (SpecEngine).  *)

\* cells a, c, d hold the same mark
full(b, a, c, d) == b[a] # Null /\ b[a] = b[c] /\ b[a] = b[d]
\* the eight triples
Triples == {{0, 1, 2}, {3, 4, 5}, {6, 7, 8},
            {0, 3, 6}, {1, 4, 7}, {2, 5, 8},
            {0, 4, 8}, {2, 4, 6}}
\* the triples m has completed
triplesOf(b, m) == {t \in Triples : \A i \in t : b[i] = m}
noTriple(b) == triplesOf(b, "X") = {} /\ triplesOf(b, "O") = {}
\* the empty cells on which m completes a triple
winningCells(b, m) ==
    {i \in empties(b) : \E t \in Triples : i \in t /\ \A j \in t \ {i} : b[j] = m}
\* the mark of the first completed triple: rows, then columns, then diagonals
firstTriple(b) ==
    IF full(b, 0, 1, 2) THEN b[0] ELSE IF full(b, 3, 4, 5) THEN b[3]
    ELSE IF full(b, 6, 7, 8) THEN b[6] ELSE IF full(b, 0, 3, 6) THEN b[0]
    ELSE IF full(b, 1, 4, 7) THEN b[1] ELSE IF full(b, 2, 5, 8) THEN b[2]
    ELSE IF full(b, 0, 4, 8) THEN b[0] ELSE b[2]

\* C12: on a board with a completed triple checkWinner returns the mark of
\* the first one in the order rows, columns, diagonals; so a mark, never draw
\* or null, and the one mark if all completed triples carry it.
C12_FirstTripleWins ==
    (last.op = "checkWinner" /\ ~noTriple(board))
    => /\ last.res = firstTriple(board)
       /\ last.res \in Marks
       /\ \A m \in Marks : triplesOf(board, otherMark(m)) = {} => last.res = m

\* O holds the middle row and X the bottom row: the middle row comes first
C12_Witness ==
    /\ last.op = "checkWinner"
    /\ {3, 4, 5} \in triplesOf(board, "O")
    /\ {6, 7, 8} \in triplesOf(board, "X")
    /\ last.res = "O"

\* C13: without a completed triple checkWinner returns draw on a full board
\* and null otherwise.
C13_DrawOrInProgress ==
    (last.op = "checkWinner" /\ noTriple(board))
    => last.res = IF empties(board) = {} THEN "draw" ELSE Null

\* [X,O,X, X,O,O, O,X,X] is a draw
C13_Witness ==
    /\ last.op = "checkWinner"
    /\ marks(board, "X") = {0, 2, 3, 7, 8}
    /\ marks(board, "O") = {1, 4, 5, 6}
    /\ last.res = "draw"

\* C14: with no completed triple and a cell that completes one for the
\* computer, computerMove returns the lowest such cell, whatever the opponent
\* threatens.
C14_WinFirst ==
    (/\ last.op = "computerMove"
     /\ noTriple(board)
     /\ winningCells(board, last.aiMark) # {})
    => /\ last.res = Min(winningCells(board, last.aiMark))
       /\ computerMove(board, last.aiMark, otherMark(last.aiMark))
            = {Min(winningCells(board, last.aiMark))}

\* [X,X,_, O,O,_, _,_,_] with O to move: 5, not the block at 2
C14_Witness ==
    /\ last.op = "computerMove"
    /\ last.aiMark = "O"
    /\ marks(board, "X") = {0, 1}
    /\ marks(board, "O") = {3, 4}
    /\ last.res = 5

\* C15: with no completed triple, no winning cell of its own and a cell that
\* completes a triple for the opponent, computerMove returns the lowest such
\* cell, centre and corners free or not.
C15_BlockSecond ==
    (/\ last.op = "computerMove"
     /\ noTriple(board)
     /\ winningCells(board, last.aiMark) = {}
     /\ winningCells(board, otherMark(last.aiMark)) # {})
    => /\ last.res = Min(winningCells(board, otherMark(last.aiMark)))
       /\ computerMove(board, last.aiMark, otherMark(last.aiMark))
            = {Min(winningCells(board, otherMark(last.aiMark)))}

\* a block on an edge cell while the centre and corners are free
C15_Witness ==
    /\ last.op = "computerMove"
    /\ last.aiMark = "O"
    /\ marks(board, "X") = {1, 7}
    /\ marks(board, "O") = {3}
    /\ last.res = 4
    /\ winningCells(board, "X") = {4}

\* C19: when placing either mark on any empty cell yields no win for it, the
\* possible results are: {4} if the centre is empty, else the empty corners
\* if there are any, else the empty cells, else only null.  On every board
\* with an empty cell the result is an empty cell, and the reply to a lone X
\* is the centre, or a corner if X holds the centre.
C19_FallbackTiers ==
    last.op = "computerMove" =>
      LET ai == last.aiMark
          hu == otherMark(ai)
          out == computerMove(board, ai, hu)
          free == empties(board)
          noWin == \A i \in free :
                     /\ checkWinner([board EXCEPT ![i] = ai]) # ai
                     /\ checkWinner([board EXCEPT ![i] = hu]) # hu
      IN  /\ last.res \in out
          /\ noWin => out = IF 4 \in free THEN {4}
                            ELSE IF free \cap {0, 2, 6, 8} # {} THEN free \cap {0, 2, 6, 8}
                            ELSE IF free # {} THEN free
                            ELSE {NoMove}
          /\ free # {} => out \subseteq free
          /\ NoMove \in out => free = {}
          /\ (marks(board, hu) = {4} /\ marks(board, ai) = {}) => out = {0, 2, 6, 8}
          /\ (\E i \in Cells \ {4} : marks(board, hu) = {i}) /\ marks(board, ai) = {}
               => out = {4}

\* the corner tier picks cell 8 while corner 0 is free as well
C19_Witness ==
    /\ last.op = "computerMove"
    /\ last.aiMark = "O"
    /\ marks(board, "X") = {4, 2}
    /\ marks(board, "O") = {6}
    /\ last.res = 8

====
